---- MODULE Spec2Model ----
(***************************************************************************)
(* StockNav: a model of Content.py (ContentGenerator), Analysis.py         *)
(* (StockAnalysisPipeline), Scraper.py (StockScraper.technical_analysis    *)
(* and get_stock_properties) and main.py (the Streamlit entry point).      *)
(*                                                                         *)
(* Strings whose content the code inspects or builds (exception texts,     *)
(* ticker symbols, file names) are sequences of one-character strings.     *)
(* Python floats are IEEE-754 doubles, kept exactly as integers counted in *)
(* units of 2^-56 and split in two limbs so that they fit TLC's integers.  *)
(***************************************************************************)
EXTENDS Integers, Sequences, FiniteSets, TLC

VARIABLES
    \* ---- ContentGenerator (Content.py) ----
    pc,               \* position inside generate_content
    clock,            \* wall-clock time; its origin is the moment the caller
                      \* of generate_content received the previous result
    request_interval, \* self.request_interval
    excpt,            \* str(e) of the exception caught at line 42, if any
    response,         \* the local `response`
    result,           \* value returned by generate_content
    log,              \* logger records of the running generate_content call
    trace,            \* service calls and sleeps of the running call, timed
    history,          \* the caller's record of the finished calls on this instance
    \* ---- StockAnalysisPipeline / main (Analysis.py, main.py) ----
    ppc,              \* position inside main / run_pipeline
    company_symbol,   \* main: the symbol picked in the select box
    stock,            \* StockAnalysisPipeline.stock
    stock_data,       \* run_pipeline: dictionary returned by the scraper
    prompt,           \* run_pipeline: the prompt handed to the generator
    fs,               \* the working directory: file name -> content
    written,          \* the file run_pipeline opened for writing, if any
    uiFile,           \* the file name main opened for reading, if any
    uiShown,          \* what main rendered
    progress,         \* progress_callback invocations
    \* ---- StockScraper.technical_analysis (Scraper.py) ----
    tpc,              \* position of the stand-alone technical analysis
    df,               \* df['Close'] as downloaded
    signals,          \* the list `signals`
    weighted_signals, \* the float `weighted_signals`
    ta_result,        \* value returned by technical_analysis
    pySum             \* which float summation the running CPython uses

genVars  == <<pc, clock, request_interval, excpt, response, result, log, trace, history>>
pipeVars == <<ppc, company_symbol, stock, stock_data, prompt, fs, written, uiFile, uiShown, progress>>
taVars   == <<tpc, df, signals, weighted_signals, ta_result, pySum>>
vars     == <<pc, clock, request_interval, excpt, response, result, log, trace, history,
              ppc, company_symbol, stock, stock_data, prompt, fs, written, uiFile, uiShown,
              progress, tpc, df, signals, weighted_signals, ta_result, pySum>>

(***************************************************************************)
(* Bounds of the model.                                                    *)
(***************************************************************************)
MaxErrLen      == 3   \* longest exception text
MaxDelay       == 1   \* longest duration of a service call, longest overrun
                      \* of a sleep, longest pause between two calls
MaxInvocations == 2   \* generate_content calls on one instance

(***************************************************************************)
(* Content.py                                                              *)
(***************************************************************************)
Cooldown == 60                   \* time.sleep(60)
DefaultRequestInterval == 40     \* request_interval=40

ErrAlphabet == {"0", "3", "4", "5"}

RECURSIVE SeqsUpTo(_, _)
SeqsUpTo(S, n) ==
    IF n = 0 THEN {<<>>}
    ELSE LET shorter == SeqsUpTo(S, n - 1)
         IN  shorter \cup {Append(s, c) : s \in shorter, c \in S}

\* Texts the service's exceptions may carry (str(e)).
ErrTexts == SeqsUpTo(ErrAlphabet, MaxErrLen)

\* Python's `sub in s` on strings.
Contains(s, sub) ==
    \E i \in 1..(Len(s) - Len(sub) + 1) : SubSeq(s, i, i + Len(sub) - 1) = sub

\* A classification that takes every exception for transient.
IsTransientAlways(e) == TRUE

\* line 44: '500' in excpt or '503' in excpt
IsTransient(e) == Contains(e, <<"5", "0", "0">>) \/ Contains(e, <<"5", "0", "3">>)

Texts == {"", "report A"}

\* What self.model.generate_content(prompt) may do: return a response whose
\* .text is readable, return one whose .text raises ValueError, or raise.
Responses == [parsable : {TRUE}, text : Texts] \cup {[parsable |-> FALSE, text |-> ""]}
Outcomes  == [ok : {TRUE}, resp : Responses, msg : {<<>>}]
             \cup [ok : {FALSE}, resp : {[parsable |-> FALSE, text |-> ""]}, msg : ErrTexts]

NoResponse == [parsable |-> FALSE, text |-> ""]
None       == [none |-> TRUE, text |-> ""]
Text(t)    == [none |-> FALSE, text |-> t]

\* What the generator did, as seen from outside: its calls of the service,
\* with what they returned, and its sleeps, each with begin and end time.
CallEvent(t0, t1, o)  == [e |-> "call", t0 |-> t0, t1 |-> t1, d |-> 0,
                          ok |-> o.ok, resp |-> o.resp]
SleepEvent(t0, t1, d) == [e |-> "sleep", t0 |-> t0, t1 |-> t1, d |-> d,
                          ok |-> TRUE, resp |-> NoResponse]

\* time.sleep(d): suspends the thread for at least d.
SleepEnds(d) == {clock + d + o : o \in 0..MaxDelay}

\* line 39: generate_content is entered.
GenEnter ==
    /\ pc' = "try"
    /\ excpt' = <<>>
    /\ response' = NoResponse
    /\ result' = None
    /\ log' = <<"info: Sending prompt to the generative model.">>
    /\ trace' = <<>>

\* lines 40-45 and 52-54: the first service call and the classification of
\* its exception.
FirstCall ==
    /\ pc = "try"
    /\ \E o \in Outcomes, lat \in 0..MaxDelay :
          /\ clock' = clock + lat
          /\ trace' = Append(trace, CallEvent(clock, clock + lat, o))
          /\ IF o.ok
             THEN /\ response' = o.resp
                  /\ pc' = "pause"
                  /\ UNCHANGED <<excpt, result, log>>
             ELSE /\ response' = response
                  /\ excpt' = <<o.msg>>
                  /\ IF IsTransient(o.msg)
                     THEN /\ log' = Append(log, "warning: Error 500/503 encountered, retrying in 1 minute")
                          /\ pc' = "cooldown"
                          /\ result' = result
                     ELSE /\ log' = Append(log, "error: Error generating content")
                          /\ pc' = "returned"
                          /\ result' = None
    /\ UNCHANGED <<request_interval, history>>
    /\ UNCHANGED <<pipeVars, taVars>>

\* A retry that does not wait.
CooldownWaitNone ==
    /\ pc = "cooldown"
    /\ pc' = "retry"
    /\ UNCHANGED <<clock, trace>>
    /\ UNCHANGED <<request_interval, excpt, response, result, log, history>>
    /\ UNCHANGED <<pipeVars, taVars>>

\* line 46: time.sleep(60)
CooldownWait ==
    /\ pc = "cooldown"
    /\ \E t \in SleepEnds(Cooldown) :
          /\ clock' = t
          /\ trace' = Append(trace, SleepEvent(clock, t, Cooldown))
    /\ pc' = "retry"
    /\ UNCHANGED <<request_interval, excpt, response, result, log, history>>
    /\ UNCHANGED <<pipeVars, taVars>>

\* A retry that, having failed, is tried once more.
RetryAgain ==
    /\ pc = "retry"
    /\ \E o \in Outcomes, lat \in 0..MaxDelay :
          /\ clock' = clock + lat
          /\ trace' = Append(trace, CallEvent(clock, clock + lat, o))
          /\ IF o.ok
             THEN /\ response' = o.resp
                  /\ pc' = "pause"
                  /\ UNCHANGED <<excpt, result, log>>
             ELSE /\ response' = response
                  /\ log' = Append(log, "error: Retry failed")
                  /\ pc' = IF Len(trace) < 3 THEN "retry" ELSE "returned"
                  /\ excpt' = excpt
                  /\ result' = None
    /\ UNCHANGED <<request_interval, history>>
    /\ UNCHANGED <<pipeVars, taVars>>

\* lines 47-51: the single retry.
Retry ==
    /\ pc = "retry"
    /\ \E o \in Outcomes, lat \in 0..MaxDelay :
          /\ clock' = clock + lat
          /\ trace' = Append(trace, CallEvent(clock, clock + lat, o))
          /\ IF o.ok
             THEN /\ response' = o.resp
                  /\ pc' = "pause"
                  /\ UNCHANGED <<excpt, result, log>>
             ELSE /\ response' = response
                  /\ excpt' = excpt
                  /\ log' = Append(log, "error: Retry failed")
                  /\ pc' = "returned"
                  /\ result' = None
    /\ UNCHANGED <<request_interval, history>>
    /\ UNCHANGED <<pipeVars, taVars>>

\* A return value that names the malformed payload instead of None.
ParseTextOrMarker(resp) == IF resp.parsable THEN Text(resp.text) ELSE Text("malformed payload")

\* lines 60-64: return response.text, or None when .text raises ValueError.
ParseText(resp) == IF resp.parsable THEN Text(resp.text) ELSE None

\* A return without the inter-call pause.
PauseAndReturnNoSleep ==
    /\ pc = "pause"
    /\ clock' = clock
    /\ trace' = trace
    /\ result' = ParseText(response)
    /\ log' = IF response.parsable
              THEN Append(log, "info: Generated content successfully.")
              ELSE log \o <<"info: Generated content successfully.",
                            "error: ValueError parsing text">>
    /\ pc' = "returned"
    /\ excpt' = excpt
    /\ response' = NoResponse
    /\ UNCHANGED <<request_interval, history>>
    /\ UNCHANGED <<pipeVars, taVars>>

\* lines 56-64: the inter-call pause, then the text is read and returned.
PauseAndReturn ==
    /\ pc = "pause"
    /\ \E t \in SleepEnds(request_interval) :
          /\ clock' = t
          /\ trace' = Append(trace, SleepEvent(clock, t, request_interval))
    /\ result' = ParseText(response)
    /\ log' = IF response.parsable
              THEN Append(log, "info: Generated content successfully.")
              ELSE log \o <<"info: Generated content successfully.",
                            "error: ValueError parsing text">>
    /\ pc' = "returned"
    /\ excpt' = excpt
    /\ response' = NoResponse
    /\ UNCHANGED <<request_interval, history>>
    /\ UNCHANGED <<pipeVars, taVars>>

\* The service calls among the events of a trace.
Calls(tr) == SelectSeq(tr, LAMBDA ev : ev.e = "call")

\* What a caller keeps of a finished generate_content call: when (on the
\* clock that starts at `now`) and how its last service call ended, and the
\* value it returned.
Summary(tr, res, now) ==
    LET last == Calls(tr)[Len(Calls(tr))]
    IN  [last_answer |-> last.t1 - now,
         ok          |-> last.ok,
         parsable    |-> last.resp.parsable,
         result      |-> res]

\* The caller's record: how many calls it made, and the summary of the
\* latest that has finished.
NoHistory == [count |-> 0, last |-> <<>>]

\* A single-threaded caller that uses one ContentGenerator instance for
\* several generate_content calls, one after the other.
CallerCalls ==
    /\ ppc = "none"
    /\ pc = "idle"
    /\ history.count < MaxInvocations
    /\ \E gap \in 0..MaxDelay : clock' = clock + gap
    /\ GenEnter
    /\ UNCHANGED <<request_interval, history>>
    /\ UNCHANGED <<pipeVars, taVars>>

CallerReceives ==
    /\ ppc = "none"
    /\ pc = "returned"
    /\ history' = [count |-> history.count + 1, last |-> <<Summary(trace, result, clock)>>]
    /\ clock' = 0
    /\ pc' = "idle"
    /\ result' = None
    /\ log' = <<>>
    /\ trace' = <<>>
    /\ excpt' = <<>>
    /\ UNCHANGED <<request_interval, response>>
    /\ UNCHANGED <<pipeVars, taVars>>

(***************************************************************************)
(* Python floats.  A double is kept as sign and magnitude; the magnitude   *)
(* is an integer number of units of 2^-56, hi * 2^30 + lo.  Every double   *)
(* that occurs in the weighted vote is a multiple of 2^-56 below 2^57.     *)
(* The sign of a zero is not kept: no comparison of the code observes it.  *)
(***************************************************************************)
Base == 1073741824   \* 2^30

Dbl(neg, hi, lo) == [neg |-> neg, hi |-> hi, lo |-> lo]
FZero  == Dbl(FALSE, 0, 0)
F03    == Dbl(FALSE, 20132659, 214748364)   \* the double written 0.3
F02    == Dbl(FALSE, 13421772, 858993460)   \* the double written 0.2
F01    == Dbl(FALSE, 6710886, 429496730)    \* the double written 0.1
FHalf  == Dbl(FALSE, 33554432, 0)           \* 0.5
FOne   == Dbl(FALSE, 67108864, 0)           \* 1.0

IsZero(a) == a.hi = 0 /\ a.lo = 0
FNeg(a)   == IF IsZero(a) THEN a ELSE Dbl(~a.neg, a.hi, a.lo)
FAbs(a)   == Dbl(FALSE, a.hi, a.lo)

MagLess(a, b) == a.hi < b.hi \/ (a.hi = b.hi /\ a.lo < b.lo)

\* a < b and a > b on doubles
FLt(a, b) ==
    IF a.neg /\ ~b.neg THEN TRUE
    ELSE IF ~a.neg /\ b.neg THEN FALSE
    ELSE IF a.neg THEN MagLess(b, a) ELSE MagLess(a, b)
FGt(a, b) == FLt(b, a)
FGe(a, b) == ~FLt(a, b)

\* Distance between neighbouring doubles around a magnitude, in units of
\* 2^-56: a double keeps 53 significant bits.
Quantum(hi) ==
    IF hi >= 67108864 THEN 16
    ELSE IF hi >= 33554432 THEN 8
    ELSE IF hi >= 16777216 THEN 4
    ELSE IF hi >= 8388608 THEN 2
    ELSE 1

\* Round an exact magnitude to the nearest double, ties to even.
RoundMag(hi, lo) ==
    LET q    == Quantum(hi)
        r    == lo % q
        down == lo - r
        up   == (2 * r > q) \/ (2 * r = q /\ (down \div q) % 2 = 1)
        lo2  == IF up THEN down + q ELSE down
    IN  IF lo2 = Base THEN <<hi + 1, 0>> ELSE <<hi, lo2>>

\* a + b on doubles
FAdd(a, b) ==
    IF a.neg = b.neg
    THEN LET lo == a.lo + b.lo
             m  == RoundMag(a.hi + b.hi + (lo \div Base), lo % Base)
         IN  Dbl(a.neg /\ ~(m[1] = 0 /\ m[2] = 0), m[1], m[2])
    ELSE IF MagLess(a, b) \/ MagLess(b, a)
    THEN LET big   == IF MagLess(a, b) THEN b ELSE a
             small == IF MagLess(a, b) THEN a ELSE b
             lo    == big.lo - small.lo
             m     == IF lo >= 0
                      THEN RoundMag(big.hi - small.hi, lo)
                      ELSE RoundMag(big.hi - small.hi - 1, lo + Base)
         IN  Dbl(big.neg, m[1], m[2])
    ELSE FZero
FSub(a, b) == FAdd(a, FNeg(b))

\* s * w for an int s in {-1, 0, 1} and a float w
IMul(s, w) == IF s = 0 THEN FZero ELSE IF s = 1 THEN w ELSE FNeg(w)

\* sum() of CPython up to 3.11: left to right additions, starting from int 0.
RECURSIVE NaiveSum(_, _)
NaiveSum(acc, xs) ==
    IF xs = <<>> THEN acc ELSE NaiveSum(FAdd(acc, Head(xs)), Tail(xs))

\* sum() of CPython from 3.12 on: Neumaier's compensated summation.
RECURSIVE NeumaierSum(_, _, _)
NeumaierSum(acc, c, xs) ==
    IF xs = <<>>
    THEN (IF IsZero(c) THEN acc ELSE FAdd(acc, c))
    ELSE LET x == Head(xs)
             t == FAdd(acc, x)
             e == IF FGe(FAbs(acc), FAbs(x))
                  THEN FAdd(FSub(acc, t), x)
                  ELSE FAdd(FSub(x, t), acc)
         IN  NeumaierSum(t, FAdd(c, e), Tail(xs))

PythonVersions == {"naive", "neumaier"}

PySum(ver, xs) ==
    IF xs = <<>> THEN FZero
    ELSE IF ver = "naive" THEN NaiveSum(FZero, xs)
    ELSE NeumaierSum(Head(xs), FZero, Tail(xs))

(***************************************************************************)
(* Scraper.py: technical_analysis                                          *)
(***************************************************************************)
Votes == {-1, 0, 1}

\* line 92
weights == <<F03, F02, F02, F02, F01>>

\* line 93: zip stops at the shorter of the two lists.
WeightedSignals(ver, sig) ==
    PySum(ver, [i \in 1..(IF Len(sig) < Len(weights) THEN Len(sig) ELSE Len(weights))
                  |-> IMul(sig[i], weights[i])])

\* lines 95-99
Decision(ws) ==
    IF FGt(ws, FHalf) THEN "Buy"
    ELSE IF FLt(ws, FNeg(FHalf)) THEN "Sell"
    ELSE "Hold"

MaxBars == 101   \* longest downloaded price series

SMAShort == 50    \* rolling(window=50)
SMALong  == 100   \* rolling(window=100)

\* A float that may be NaN: <<>> is NaN, <<n, d>> is the number n / d.
NaN    == <<>>
Num(n) == <<n, 1>>
\* a > b and a < b; every comparison with NaN is False.  Prices of the
\* model are small integers, so that the means compared are far apart
\* whenever they differ and the doubles compare as the fractions do.
NGt(a, b) == a # NaN /\ b # NaN /\ a[1] * b[2] > b[1] * a[2]
NLt(a, b) == NGt(b, a)

RECURSIVE SumSeq(_)
SumSeq(xs) == IF xs = <<>> THEN 0 ELSE Head(xs) + SumSeq(Tail(xs))

\* df['Close'].rolling(window=w).mean().iloc[-1]: NaN until w bars exist.
RollingMeanLast(close, w) ==
    IF Len(close) < w THEN NaN
    ELSE <<SumSeq(SubSeq(close, Len(close) - w + 1, Len(close))), w>>

\* lines 56-58
SMACross(close) ==
    IF NGt(RollingMeanLast(close, SMAShort), RollingMeanLast(close, SMALong)) THEN 1 ELSE -1

\* Daily closes the price source may return: a run of one price followed by
\* a run of another, of every length up to MaxBars.
Prices   == {1, 2}
TailLens == {0, 50}
Series ==
    {[i \in 1..n |-> IF i <= n - k THEN p[1] ELSE p[2]] :
        n \in 0..MaxBars, k \in TailLens, p \in Prices \X Prices}

\* Latest values of the indicators computed by the `ta` library.
IndVals == {NaN, Num(1), Num(2)}
RSIVals == {NaN, Num(20), Num(80)}
\* A slow average is defined only where the fast one is, and the lower
\* Bollinger band lies below the upper one.
Indicators ==
    {ind \in [RSI : RSIVals, MACD_line : IndVals, MACD_signal : {NaN, Num(1)},
              BB_upper : IndVals, BB_lower : IndVals,
              EMA_20 : IndVals, EMA_50 : {NaN, Num(1)}] :
        /\ ind.MACD_line = NaN => ind.MACD_signal = NaN
        /\ ind.EMA_20 = NaN => ind.EMA_50 = NaN
        /\ (ind.BB_upper = NaN) = (ind.BB_lower = NaN)
        /\ ~NGt(ind.BB_lower, ind.BB_upper)}

\* lines 60-89: the votes of RSI, MACD, Bollinger bands and EMA.
OtherSignals(close, ind) ==
    LET last == Num(close[Len(close)])
        rsi  == IF NGt(ind.RSI, Num(70)) THEN -1
                ELSE IF NLt(ind.RSI, Num(30)) THEN 1 ELSE 0
        macd == IF NGt(ind.MACD_line, ind.MACD_signal) THEN 1 ELSE -1
        bb   == IF NLt(last, ind.BB_lower) THEN 1
                ELSE IF NGt(last, ind.BB_upper) THEN -1 ELSE 0
        ema  == IF NGt(ind.EMA_20, ind.EMA_50) THEN 1 ELSE -1
    IN  <<rsi, macd, bb, ema>>

FetchFailedMsg == "Data fetch failed. Check the stock symbol."

\* lines 91-99 on the finished list of signals
Aggregate(sig, ver) ==
    LET ws == WeightedSignals(ver, sig)
    IN  [signals |-> sig, weighted_signals |-> ws, result |-> Decision(ws)]

\* technical_analysis for the downloaded closes, the indicator values of
\* the ta library and the running interpreter; lines 46-99
technical_analysis(close, ind, ver) ==
    IF close = <<>>
    THEN [signals |-> <<>>, weighted_signals |-> FZero, result |-> FetchFailedMsg]
    ELSE Aggregate(<<SMACross(close)>> \o OtherSignals(close, ind), ver)

\* A stand-alone call of StockScraper.technical_analysis.
TechnicalAnalysis ==
    /\ tpc = "start"
    /\ \E close \in Series :
          /\ df' = close
          /\ IF close = <<>>
             THEN /\ signals' = <<>>
                  /\ weighted_signals' = FZero
                  /\ ta_result' = FetchFailedMsg
             ELSE \E sma \in {SMACross(close)}, ind \in Indicators :
                         LET r == Aggregate(<<sma>> \o OtherSignals(close, ind), pySum)
                         IN  /\ signals' = r.signals
                             /\ weighted_signals' = r.weighted_signals
                             /\ ta_result' = r.result
    /\ tpc' = "done"
    /\ UNCHANGED pySum
    /\ UNCHANGED <<genVars, pipeVars>>

\* The aggregation step (lines 91-99) on a list of five votes.
WeightedVoting ==
    /\ tpc = "votes"
    /\ LET r == Aggregate(signals, pySum)
       IN  /\ weighted_signals' = r.weighted_signals
           /\ ta_result' = r.result
    /\ tpc' = "voted"
    /\ UNCHANGED <<df, signals, pySum>>
    /\ UNCHANGED <<genVars, pipeVars>>

(***************************************************************************)
(* Scraper.py: get_stock_properties; Analysis.py; main.py                  *)
(***************************************************************************)
MaxSymLen == 2   \* longest ticker symbol

SymAlphabet == {"C", "t"}
\* the Symbol column of stock.csv
Symbols == SeqsUpTo(SymAlphabet, MaxSymLen) \ {<<>>}

\* str.upper()
UpperChar(c) == IF c = "t" THEN "T" ELSE c
Upper(s) == [i \in 1..Len(s) |-> UpperChar(s[i])]

Suffix == <<"_", "a", "n", "a", "l", "y", "s", "i", "s", ".", "m", "d">>
\* Analysis.py line 65: f"{self.stock}_analysis.md"
ReportPath(stk) == stk \o Suffix
\* main.py line 42: f"C{company_symbol}_analysis.md"
UiPath(sym) == <<"C">> \o sym \o Suffix

\* Closes the price source returns during a pipeline run.
PipeSeries == {<<>>, <<1>>, <<1, 2>>}
PipeIndicators == {ind \in Indicators :
                      /\ ind.RSI = NaN /\ ind.MACD_signal = Num(1) /\ ind.EMA_50 = Num(1)
                      /\ ind.BB_upper = Num(2) /\ ind.BB_lower = Num(1)}

\* get_stock_news, lines 101-127: the news mapping, or {"error": ...}
NewsResults == {[error |-> "RequestException"], [Unknown_Time |-> "headline"]}

\* get_stock_properties, lines 129-206.  `page` tells what screener.in
\* answered.  Of the keys of the dictionary only those are kept whose value
\* depends on more than the text of the page.
get_stock_properties(page, news, close, ind, ver) ==
    IF page = "unreachable" THEN [error |-> "RequestException"]
    ELSE IF page = "no name" THEN [error |-> "Stock name not found."]
    ELSE [stock_name |-> "name",
          news |-> news,
          technical_analysis |-> technical_analysis(close, ind, ver).result]

Pages == {"unreachable", "no name", "ok"}

\* run_pipeline has not called the scraper yet.
NoData == [none |-> TRUE]

\* "error" in stock_data
HasError(d) == "error" \in DOMAIN d

\* open(path, "w") followed by f.write(content)
WriteFile(files, path, content) ==
    [n \in DOMAIN files \cup {path} |-> IF n = path THEN content ELSE files[n]]

\* main.py lines 21-35: "Run Analysis" is pressed; the pipeline and its
\* ContentGenerator are constructed (Analysis.py 16-24, Content.py 11-30).
RunAnalysis ==
    /\ ppc = "ui"
    /\ \E sym \in Symbols, api_key \in BOOLEAN :
          /\ company_symbol' = sym
          /\ stock' = Upper(sym)
          /\ ppc' = IF api_key THEN "run_pipeline" ELSE "crashed"
    /\ request_interval' = DefaultRequestInterval
    /\ stock_data' = NoData
    /\ prompt' = <<>>
    /\ written' = <<>>
    /\ uiFile' = <<>>
    /\ uiShown' = ""
    /\ progress' = <<>>
    /\ history' = NoHistory
    /\ UNCHANGED <<pc, clock, excpt, response, result, log, trace, fs>>
    /\ UNCHANGED taVars

Progress(p, step) == Append(p, step)

\* run_pipeline, lines 33-59: scrape, stop on a scraping error, otherwise
\* build the prompt and call generate_content.
Scrape ==
    /\ ppc = "run_pipeline"
    /\ \E page \in Pages, news \in NewsResults, close \in PipeSeries, ind \in PipeIndicators :
          LET data == get_stock_properties(page, news, close, ind, pySum)
          IN  /\ stock_data' = data
              /\ IF HasError(data)
                 THEN /\ ppc' = "returned"
                      /\ UNCHANGED <<prompt, progress, pc, excpt, response, result, log, trace>>
                 ELSE /\ progress' = Progress(progress, 1)
                      /\ prompt' = <<data>>
                      /\ ppc' = "generating"
                      /\ GenEnter
    /\ UNCHANGED <<clock, request_interval, history>>
    /\ UNCHANGED <<company_symbol, stock, fs, written, uiFile, uiShown>>
    /\ UNCHANGED taVars

\* run_pipeline, lines 59-75: generate_content has returned; the report is
\* written.  open() may fail; f.write(None) raises TypeError after open()
\* has created or truncated the file.
Persist ==
    /\ ppc = "generating"
    /\ pc = "returned"
    /\ pc' = "idle"
    /\ \E sinkOK \in BOOLEAN :
          IF ~sinkOK
          THEN /\ ppc' = "crashed"
               /\ progress' = Progress(progress, 2)
               /\ UNCHANGED <<fs, written>>
          ELSE /\ written' = <<ReportPath(stock)>>
               /\ IF result.none
                  THEN /\ fs' = WriteFile(fs, ReportPath(stock), "")
                       /\ progress' = Progress(progress, 2)
                       /\ ppc' = "crashed"
                  ELSE /\ fs' = WriteFile(fs, ReportPath(stock), result.text)
                       /\ progress' = Progress(Progress(progress, 2), 3)
                       /\ ppc' = "returned"
    /\ UNCHANGED <<clock, request_interval, excpt, response, result, log, trace, history>>
    /\ UNCHANGED <<company_symbol, stock, stock_data, prompt, uiFile, uiShown>>
    /\ UNCHANGED taVars

\* main.py lines 37-46: run_pipeline returned; the report is rendered.
Render ==
    /\ ppc = "returned"
    /\ uiFile' = <<UiPath(company_symbol)>>
    /\ uiShown' = IF UiPath(company_symbol) \in DOMAIN fs
                  THEN fs[UiPath(company_symbol)]
                  ELSE "error: Markdown file not found."
    /\ ppc' = "rendered"
    /\ UNCHANGED genVars
    /\ UNCHANGED <<company_symbol, stock, stock_data, prompt, fs, written, progress>>
    /\ UNCHANGED taVars

(***************************************************************************)
(* Initial states and specifications                                       *)
(***************************************************************************)
GenIdle ==
    /\ pc = "idle"
    /\ clock = 0
    /\ excpt = <<>>
    /\ response = NoResponse
    /\ result = None
    /\ log = <<>>
    /\ trace = <<>>
    /\ history = NoHistory

PipeNone ==
    /\ company_symbol = <<>>
    /\ stock = <<>>
    /\ stock_data = NoData
    /\ prompt = <<>>
    /\ written = <<>>
    /\ uiFile = <<>>
    /\ uiShown = ""
    /\ progress = <<>>

TANone ==
    /\ df = <<>>
    /\ signals = <<>>
    /\ weighted_signals = FZero
    /\ ta_result = ""

RequestIntervals == {5, DefaultRequestInterval}

\* One ContentGenerator instance, used by a single-threaded caller.
InitGen ==
    /\ GenIdle
    /\ request_interval \in RequestIntervals
    /\ ppc = "none" /\ PipeNone /\ fs = <<>>
    /\ tpc = "none" /\ TANone /\ pySum = "naive"

NextGen == CallerCalls \/ FirstCall \/ CooldownWait \/ Retry \/ PauseAndReturn \/ CallerReceives

SpecGen == InitGen /\ [][NextGen]_vars

\* Reports left in the working directory by earlier sessions.
OldReports ==
    {<<>>} \cup {WriteFile(<<>>, ReportPath(Upper(s)), "old report") : s \in Symbols}

\* The Streamlit application.
Init ==
    /\ GenIdle
    /\ request_interval = DefaultRequestInterval
    /\ ppc = "ui" /\ PipeNone /\ fs \in OldReports
    /\ tpc = "none" /\ TANone /\ pySum \in PythonVersions

Next == RunAnalysis \/ Scrape \/ FirstCall \/ CooldownWait \/ Retry \/ PauseAndReturn
        \/ Persist \/ Render

Spec == Init /\ [][Next]_vars

\* StockScraper.technical_analysis on its own.
InitTA ==
    /\ GenIdle /\ request_interval = DefaultRequestInterval
    /\ ppc = "none" /\ PipeNone /\ fs = <<>>
    /\ tpc = "start" /\ TANone /\ pySum \in PythonVersions

NextTA == TechnicalAnalysis

SpecTA == InitTA /\ [][NextTA]_vars

\* The aggregation step on every list of five votes.
InitAgg ==
    /\ GenIdle /\ request_interval = DefaultRequestInterval
    /\ ppc = "none" /\ PipeNone /\ fs = <<>>
    /\ tpc = "votes"
    /\ df = <<>>
    /\ signals \in [1..5 -> Votes]
    /\ weighted_signals = FZero
    /\ ta_result = ""
    /\ pySum \in PythonVersions

NextAgg == WeightedVoting

SpecAgg == InitAgg /\ [][NextAgg]_vars

(***************************************************************************)
(* Properties                                                              *)
(***************************************************************************)
\* The service calls of the running (or just finished) generate_content.
cs == Calls(trace)
\* The sleeps of the running (or just finished) generate_content.
sleeps == SelectSeq(trace, LAMBDA ev : ev.e = "sleep")

\* An exception text that carries "500" or "503".
CarriesTransientSignature(msg) ==
    \E i \in 1..(Len(msg) - 2) :
        msg[i] = "5" /\ msg[i + 1] = "0" /\ msg[i + 2] \in {"0", "3"}

FirstFailedTransient ==
    Len(cs) >= 1 /\ ~cs[1].ok /\ excpt # <<>> /\ CarriesTransientSignature(excpt[1])
FirstFailedPermanent ==
    Len(cs) >= 1 /\ ~cs[1].ok /\ excpt # <<>> /\ ~CarriesTransientSignature(excpt[1])

\* The cooldown was slept, whole, between the end of the first call and the
\* begin of the second.
CooldownObserved ==
    /\ Len(trace) >= 3
    /\ trace[1].e = "call" /\ trace[2].e = "sleep" /\ trace[3].e = "call"
    /\ trace[2].d = 60
    /\ trace[2].t0 >= trace[1].t1
    /\ trace[2].t1 >= trace[2].t0 + 60
    /\ trace[3].t0 >= trace[2].t1

\* C1 as stated: after a first failure with a transient signature and a
\* second call that succeeds, generate_content has called the service
\* exactly twice, has slept the 60-unit cooldown between the two calls, and
\* returns the text of the second response.
C1_Original ==
    (pc = "returned" /\ FirstFailedTransient /\ Len(cs) >= 2 /\ cs[2].ok)
       => /\ Len(cs) = 2
          /\ CooldownObserved
          /\ result = Text(cs[2].resp.text)

\* C1, amended: a first failure with a transient signature is always
\* followed by exactly one retry, made after the whole 60-unit cooldown;
\* when the retry succeeds the value returned is the text of the second
\* response if that text can be read, and None if reading it raises
\* ValueError.
C1_RetryOnceAfterCooldown ==
    (pc = "returned" /\ FirstFailedTransient)
       => /\ Len(cs) = 2
          /\ CooldownObserved
          /\ cs[2].ok =>
                result = IF cs[2].resp.parsable
                         THEN Text(cs[2].resp.text) ELSE None

C1_Witness ==
    /\ pc = "returned" /\ FirstFailedTransient
    /\ excpt = <<<<"5", "0", "3">>>>
    /\ Len(cs) = 2 /\ cs[2].ok /\ cs[2].resp.parsable
    /\ result = Text("report A")

\* C2: after a first failure whose text carries neither "500" nor "503",
\* generate_content has returned None without a second service call and
\* without any sleep.
C2_PermanentFailureNotRetried ==
    FirstFailedPermanent
       => /\ pc = "returned"
          /\ Len(cs) = 1
          /\ Len(sleeps) = 0
          /\ result = None

C2_Witness ==
    /\ pc = "returned" /\ FirstFailedPermanent
    /\ excpt = <<<<"4", "0", "4">>>>
    /\ result = None

\* C3: generate_content calls the service at most twice; a second call
\* follows only a first call that failed with a transient signature; and
\* when the second call fails too, generate_content has returned None.
C3_AtMostOneRetry ==
    /\ Len(cs) <= 2
    /\ pc = "retry" => (Len(cs) = 1 /\ FirstFailedTransient)
    /\ Len(cs) = 2 => FirstFailedTransient
    /\ (Len(cs) = 2 /\ ~cs[2].ok) => (pc = "returned" /\ result = None)

C3_Witness ==
    /\ pc = "returned" /\ Len(cs) = 2 /\ ~cs[2].ok
    /\ result = None

\* The score of the votes in exact arithmetic, in tenths.
Tenths(sig) == 3 * sig[1] + 2 * sig[2] + 2 * sig[3] + 2 * sig[4] + sig[5]
ExactDecision(sig) ==
    IF Tenths(sig) > 5 THEN "Buy" ELSE IF Tenths(sig) < -5 THEN "Sell" ELSE "Hold"

C5_ShortSeriesNeutral ==
    (tpc = "done" /\ Len(df) > 0 /\ Len(df) < 100)
       => /\ ta_result \in {"Buy", "Sell", "Hold"}
          /\ signals[1] = 0

\* C6: when generate_content has returned None, run_pipeline leaves every
\* file as it is: the report is neither created, truncated nor modified.
C6_NoWriteOnFailure ==
    [][(ppc = "generating" /\ pc = "returned" /\ result = None)
          => (fs' = fs /\ written' = <<>>)]_vars

\* C7: after a failed fetch (fundamentals unreachable, or an empty price
\* series) no prompt is built, generate_content is not called and nothing
\* is written.
FetchFailed ==
    \/ HasError(stock_data)
    \/ ("technical_analysis" \in DOMAIN stock_data
          /\ stock_data.technical_analysis = FetchFailedMsg)
C7_FetchFailureAborts ==
    FetchFailed => (prompt = <<>> /\ pc = "idle" /\ trace = <<>> /\ written = <<>>)

\* C8: of two consecutive generate_content calls on one instance that both
\* got a successful response, the second issues its request no earlier
\* than request_interval after the response of the first was received.
C8_InterCallSpacing ==
    (history.last # <<>> /\ history.last[1].ok
        /\ pc = "returned" /\ cs[Len(cs)].ok)
       => cs[1].t0 >= history.last[1].last_answer + request_interval

C8_Witness ==
    /\ history.last # <<>> /\ history.last[1].ok
    /\ pc = "returned" /\ cs[Len(cs)].ok
    /\ request_interval = 40
    /\ cs[1].t0 = history.last[1].last_answer + 40

Malformed(c)    == c.ok /\ ~c.parsable
ServiceError(c) == ~c.ok

\* C9 as stated: a malformed payload is not retried, and what the caller
\* gets for it differs from what it gets for a network or server error.
C9_Original ==
    /\ \A i \in 1..Len(cs) : cs[i].ok => i = Len(cs)
    /\ (pc = "returned" /\ history.last # <<>>)
          => LET a == history.last[1]
                 b == Summary(trace, result, clock)
             IN  /\ (Malformed(a) /\ ServiceError(b)) => a.result # b.result
                 /\ (Malformed(b) /\ ServiceError(a)) => a.result # b.result

\* C9, amended: a malformed payload is not retried; the caller gets None
\* for it, the same value as for a network or server error, and only the
\* last log record tells the two apart.
C9_MalformedNotRetried ==
    /\ \A i \in 1..Len(cs) : cs[i].ok => i = Len(cs)
    /\ (pc = "returned" /\ cs[Len(cs)].ok /\ ~cs[Len(cs)].resp.parsable)
          => /\ result = None
             /\ log[Len(log)] = "error: ValueError parsing text"
    /\ (pc = "returned" /\ ~cs[Len(cs)].ok)
          => /\ result = None
             /\ log[Len(log)] \in {"error: Error generating content", "error: Retry failed"}

C9_Witness ==
    /\ pc = "returned"
    /\ cs[Len(cs)].ok /\ ~cs[Len(cs)].resp.parsable
    /\ result = None
    /\ history.last # <<>> /\ ServiceError(history.last[1])

\* C10: after a run that fetched, generated and persisted, the file main
\* opens to render the report is the file run_pipeline wrote.
C10_UiReadsPersistedReport ==
    (ppc = "rendered" /\ written # <<>>) => uiFile = written

====
